---------------------------- MODULE Spec2Model ----------------------------
(***************************************************************************)
(* PooyaBot: the agent loop of src/bot.py.                                 *)
(*                                                                         *)
(* One Telegram update is handled by handle_message: the text is checked,  *)
(* the conversation is seeded with [system, user] and the compiled graph  *)
(* (agent -> should_continue -> tools -> agent ...) is run under           *)
(* recursion_limit super-steps; the last message's content is turned into  *)
(* the reply, any exception into the fixed apology, and the reply is sent. *)
(*                                                                         *)
(* The language model and the tool backends are the environment: every     *)
(* model response and every backend outcome is a nondeterministic choice.  *)
(***************************************************************************)
EXTENDS Naturals, Sequences, FiniteSets, TLC

VARIABLES
    pc,          \* position of handle_message: "idle", "graph", "send", "returned"
    user_text,   \* update.message.text
    messages,    \* AgentState["messages"], the conversation log
    next,        \* the node the graph runs next: "agent", "tools", "END"
    step,        \* number of the super-step the graph is about to run
    outputs,     \* ToolNode: outputs of the tool calls of the batch that have completed
    llm_input,   \* the argument of the latest llm_with_tools.invoke
    model_calls, \* number of llm_with_tools.invoke calls of the turn
    tool_runs,   \* number of tool calls the tools node has run in the turn
    error,       \* the exception caught by handle_message's except clause
    bot_reply,   \* the text handed to context.bot.send_message
    sent,        \* the messages the chat has received
    escaped,     \* TRUE when an exception left handle_message
    chat,        \* update.effective_chat.id of the update being handled
    hung         \* ToolNode: the tool calls of the batch that will never return

vars == <<pc, user_text, messages, next, step, outputs, llm_input,
          model_calls, tool_runs, error, bot_reply, sent, escaped, chat, hung>>

---------------------------------------------------------------------------
(* Program constants and fixed texts                                       *)

recursion_limit == 10

InvalidInputText == "Please send a valid text message."
FallbackText == "I'm thinking, but I couldn't formulate a text response."
InternalErrorText == "Sorry, I encountered an internal error. Please try again."
system_message == "You are the AI Digital Twin of **Pooya Nasiri**."

\* tools = [check_my_memory, check_github_activity, web_search_tool]
tools == <<"check_my_memory", "check_github_activity", "web_search">>
ToolNames == {tools[i] : i \in 1..Len(tools)}

---------------------------------------------------------------------------
(* Bounds of the environment                                               *)

\* most tool-call requests one assistant message carries
MaxCalls == 2
\* the first MaxFree tool-call requests of a turn are chosen freely (tool name
\* and backend outcome); later ones ask check_my_memory, which succeeds
MaxFree == 2

---------------------------------------------------------------------------
(* Message contents                                                        *)

StrContent(s) == [kind |-> "str", text |-> s, segs |-> <<>>]
ListContent(ss) == [kind |-> "list", text |-> "", segs |-> ss]
TextSeg(s) == [kind |-> "dict", hasText |-> TRUE, text |-> s]
OtherSeg == [kind |-> "dict", hasText |-> FALSE, text |-> ""]
StrSeg(s) == [kind |-> "str", hasText |-> FALSE, text |-> s]

\* Python's repr of one element of a content list
SegRepr(seg) ==
    IF seg.kind = "str" THEN "'" \o seg.text \o "'"
    ELSE IF seg.hasText THEN "{'type': 'text', 'text': '" \o seg.text \o "'}"
    ELSE "{'type': 'image_url'}"

RECURSIVE JoinRepr(_)
JoinRepr(ss) ==
    IF Len(ss) = 0 THEN ""
    ELSE IF Len(ss) = 1 THEN SegRepr(ss[1])
    ELSE SegRepr(ss[1]) \o ", " \o JoinRepr(Tail(ss))

\* str(final_message.content) of a list content
PyStr(content) == "[" \o JoinRepr(content.segs) \o "]"


\* a variant of the extraction without the branch for plain text
ExtractReplyListOnly(content) ==
    IF content.kind = "list" /\ Len(content.segs) > 0
    THEN IF content.segs[1].kind = "dict" /\ content.segs[1].hasText
         THEN content.segs[1].text
         ELSE PyStr(content)
    ELSE FallbackText

\* a variant of the extraction that looks for the first segment with a text
ExtractReplyFirstText(content) ==
    LET texts == {i \in 1..Len(content.segs) :
                    content.segs[i].kind = "dict" /\ content.segs[i].hasText}
    IN IF content.kind = "list" /\ texts # {}
       THEN content.segs[CHOOSE i \in texts : \A j \in texts : i <= j].text
       ELSE IF content.kind = "str" THEN content.text
       ELSE FallbackText

\* final_message.content -> bot_reply ("Robust Text Extraction")
ExtractReply(content) ==
    IF content.kind = "list" /\ Len(content.segs) > 0
    THEN IF content.segs[1].kind = "dict" /\ content.segs[1].hasText
         THEN content.segs[1].text
         ELSE PyStr(content)
    ELSE IF content.kind = "str" THEN content.text
    ELSE FallbackText

---------------------------------------------------------------------------
(* Messages and the add_messages reducer                                   *)

Msg(role, content, calls, call_id, id) ==
    [role |-> role, content |-> content, tool_calls |-> calls,
     tool_call_id |-> call_id, id |-> id]

SystemMessage(text, id) == Msg("system", StrContent(text), <<>>, 0, id)
HumanMessage(text, id) == Msg("user", StrContent(text), <<>>, 0, id)
AIMessage(content, calls, id) == Msg("assistant", content, calls, 0, id)
ToolMessage(text, call_id, id) == Msg("tool_result", StrContent(text), <<>>, call_id, id)

ToolCall(id, name) == [id |-> id, name |-> name, args |-> "resume"]

\* a variant in which the ids of new messages start again at 1
FreshIdReused(log, k) == k

\* a message id no message of the log has (a run id, or the uuid4 add_messages assigns)
FreshId(log, k) == Len(log) + k

\* add_messages: a message whose id is already in the log replaces that entry,
\* any other message is appended
AddOne(left, m) ==
    IF \E i \in 1..Len(left) : left[i].id = m.id
    THEN [i \in 1..Len(left) |-> IF left[i].id = m.id THEN m ELSE left[i]]
    ELSE Append(left, m)

RECURSIVE add_messages(_, _)
add_messages(left, right) ==
    IF Len(right) = 0 THEN left
    ELSE add_messages(AddOne(left, right[1]), Tail(right))

Last(log) == log[Len(log)]

\* number of tool-call requests the log's assistant messages carry
RECURSIVE NumRequested(_)
NumRequested(log) ==
    IF Len(log) = 0 THEN 0
    ELSE Len(log[1].tool_calls) + NumRequested(Tail(log))

---------------------------------------------------------------------------
(* Tools                                                                   *)

\* what the backend of a tool does when it is called
Outcomes == {"ok", "empty", "error"}

check_my_memory(outcome) ==
    IF outcome = "error" THEN "Error reading memory: timeout"
    ELSE IF outcome = "empty" THEN "No specific personal memory found."
    ELSE "Pooya's resume: developer"

check_github_activity(outcome) ==
    IF outcome = "error" THEN "Error connecting to GitHub: timeout"
    ELSE IF outcome = "empty" THEN "No recent public repositories found."
    ELSE "Repo: PooyaBot | URL: https://github.com/PooyaNasiri/PooyaBot | Desc: No description"

\* TavilySearchResults returns repr(e) when the search raises
web_search_tool(outcome) ==
    IF outcome = "error" THEN "HTTPError('timeout')"
    ELSE IF outcome = "empty" THEN "[]"
    ELSE "[{'url': 'https://example.org', 'content': 'sunny'}]"

InvalidToolText(name) ==
    "Error: " \o name \o " is not a valid tool, try one of [check_my_memory, check_github_activity, web_search]."

\* ToolNode's handling of one tool call: the text of its ToolMessage
RunOne(call, outcome) ==
    IF call.name \notin ToolNames THEN InvalidToolText(call.name)
    ELSE IF call.name = "check_my_memory" THEN check_my_memory(outcome)
    ELSE IF call.name = "check_github_activity" THEN check_github_activity(outcome)
    ELSE web_search_tool(outcome)

\* variants of ToolNode's output: the batch is given up at the first call that
\* raised; every result carries the id of the first request; every result is
\* written twice
ToolOutputsAbort(log, calls, outs) ==
    LET bad == {i \in 1..Len(calls) : outs[i].outcome = "error"}
        n == IF bad = {} THEN Len(calls)
             ELSE (CHOOSE i \in bad : \A j \in bad : i <= j) - 1
    IN [i \in 1..n |-> ToolMessage(outs[i].text, calls[i].id, FreshId(log, i))]
ToolOutputsFirstId(log, calls, outs) ==
    [i \in 1..Len(calls) |-> ToolMessage(outs[i].text, calls[1].id, FreshId(log, i))]
ToolOutputsTwice(log, calls, outs) ==
    [i \in 1..(2 * Len(calls)) |->
        ToolMessage(outs[(i + 1) \div 2].text, calls[(i + 1) \div 2].id, FreshId(log, i))]

\* ToolNode's output: one ToolMessage per tool call, in the order of the requests
ToolOutputs(log, calls, outs) ==
    [i \in 1..Len(calls) |-> ToolMessage(outs[i].text, calls[i].id, FreshId(log, i))]

---------------------------------------------------------------------------
(* The graph                                                               *)

\* variants of the routing: tools only for a response without text, and
\* never tools
should_continue_content(log) ==
    IF Len(Last(log).tool_calls) > 0 /\ Last(log).content = StrContent("")
    THEN "tools" ELSE "END"
should_continue_end(log) == "END"

\* lines 147-151
should_continue(log) ==
    IF Len(Last(log).tool_calls) > 0 THEN "tools" ELSE "END"

\* variants of the step check: no limit, a limit that is one step late, and
\* a limit that is one step early
OutOfStepsNever(s) == FALSE
OutOfStepsLate(s) == s > recursion_limit + 1
OutOfStepsEarly(s) == s >= recursion_limit

\* the graph stops with GraphRecursionError before a super-step beyond the limit
OutOfSteps(s) == s > recursion_limit


---------------------------------------------------------------------------
(* The environment's choices                                               *)

UserTexts == {"", "   ", "hello"}

\* the chats that send an update, and what each may send
Chats == <<"alice", "bob">>
TextsOf(c) == IF c = Chats[1] THEN UserTexts ELSE {"salam"}

\* the freely chosen requests are those of the first chat's turn
Free == IF chat = Chats[1] THEN MaxFree ELSE 0

\* a variant that strips nothing
StripNothing(t) == t

\* user_text.strip()
Strip(t) == IF t = "   " THEN "" ELSE t

\* contents of a response without tool calls
FinalContents ==
    { StrContent(""), StrContent("hi there"),
      ListContent(<<>>),
      ListContent(<<TextSeg("seg")>>),
      ListContent(<<TextSeg("")>>),
      ListContent(<<OtherSeg, TextSeg("seg")>>),
      ListContent(<<StrSeg("seg")>>) }

\* contents of a response with tool calls when the log holds k requests already:
\* the first such response may carry text as well
CallContents(k) ==
    IF k = 0 /\ Free > 0 THEN {StrContent(""), StrContent("Let me check.")}
    ELSE {StrContent("")}

RequestNames == ToolNames \cup {"weather_v2"}

\* the names a response may ask for when the log holds k requests already
Batches(k) ==
    { names \in UNION { [1..n -> RequestNames] : n \in 1..MaxCalls } :
        /\ Len(names) > 1 => k + Len(names) <= Free
        /\ k + 1 > Free => names[1] = "check_my_memory" }

\* the backend outcomes the environment may choose for a call
CallOutcomes(call) ==
    IF call.name \in ToolNames /\ call.id <= Free THEN Outcomes ELSE {"ok"}

---------------------------------------------------------------------------
(* State                                                                   *)

Unbound == "<unbound>"

Init ==
    /\ pc = "idle"
    /\ user_text = Unbound
    /\ messages = <<>>
    /\ next = "none"
    /\ step = 0
    /\ outputs = <<>>
    /\ llm_input = <<>>
    /\ model_calls = 0
    /\ tool_runs = 0
    /\ error = "none"
    /\ bot_reply = Unbound
    /\ sent = <<>>
    /\ escaped = FALSE
    /\ chat = Chats[1]
    /\ hung = {}

\* the calls the tools node is running
Pending == Last(messages).tool_calls

InGraph(node) == pc = "graph" /\ next = node /\ ~OutOfSteps(step)


---------------------------------------------------------------------------
(* handle_message                                                          *)

\* lines 172-176: an empty or blank text is answered with the notice
RejectInput(t) ==
    /\ pc = "idle"
    /\ t = "" \/ Strip(t) = ""
    /\ user_text' = t
    /\ sent' = Append(sent, InvalidInputText)
    /\ pc' = "returned"
    /\ UNCHANGED <<messages, next, step, outputs, llm_input, model_calls,
                   tool_runs, error, bot_reply, escaped,
                   chat, hung>>

\* a variant of the seeding that adds the two messages to the log the graph
\* held before
StartTurnKeepsHistory(t) ==
    /\ pc = "idle"
    /\ ~(t = "" \/ Strip(t) = "")
    /\ user_text' = t
    /\ messages' = messages \o <<SystemMessage(system_message, FreshId(messages, 1)),
                                 HumanMessage(t, FreshId(messages, 2))>>
    /\ next' = "agent"
    /\ step' = 1
    /\ pc' = "graph"
    /\ UNCHANGED <<outputs, llm_input, model_calls, tool_runs, error,
                   bot_reply, sent, escaped, chat, hung>>

\* lines 178-211: the log is seeded and the graph entered at the agent node
StartTurn(t) ==
    /\ pc = "idle"
    /\ ~(t = "" \/ Strip(t) = "")
    /\ user_text' = t
    /\ messages' = add_messages(<<>>, <<SystemMessage(system_message, 1),
                                        HumanMessage(t, 2)>>)
    /\ next' = "agent"
    /\ step' = 1
    /\ pc' = "graph"
    /\ UNCHANGED <<outputs, llm_input, model_calls, tool_runs, error,
                   bot_reply, sent, escaped,
                   chat, hung>>

\* a variant of the except clause that replies with the exception's text
ExceptReplyRaw(e) == e

\* the except clause of handle_message
ExceptReply(e) == InternalErrorText

\* chatbot_node, the model answering with a message; should_continue routes
AgentStep(content, calls) ==
    /\ llm_input' = messages
    /\ model_calls' = model_calls + 1
    /\ messages' = add_messages(messages,
                       <<AIMessage(content, calls, FreshId(messages, 1))>>)
    /\ next' = should_continue(messages')
    /\ step' = step + 1
    /\ UNCHANGED <<pc, user_text, outputs, tool_runs, error, bot_reply,
                   sent, escaped,
                   chat, hung>>

\* the model answers without tool calls
AgentFinal(content) ==
    /\ InGraph("agent")
    /\ AgentStep(content, <<>>)

\* the model answers with tool-call requests
AgentCalls(content, names) ==
    /\ InGraph("agent")
    /\ AgentStep(content,
           [j \in 1..Len(names) |-> ToolCall(NumRequested(messages) + j, names[j])])

\* llm_with_tools.invoke raises; the exception reaches the except clause
AgentError ==
    /\ InGraph("agent")
    /\ llm_input' = messages
    /\ model_calls' = model_calls + 1
    /\ error' = "ModelInvocationError"
    /\ bot_reply' = ExceptReply(error')
    /\ pc' = "send"
    /\ UNCHANGED <<user_text, messages, next, step, outputs, tool_runs,
                   sent, escaped,
                   chat, hung>>

\* ToolNode: one tool call of the batch completes, in any order
ToolFinish(i, outcome) ==
    /\ InGraph("tools")
    /\ i \in 1..Len(Pending)
    /\ i \notin DOMAIN outputs
    /\ i \notin hung
    /\ outcome \in CallOutcomes(Pending[i])
    /\ outputs' = (i :> [outcome |-> outcome, text |-> RunOne(Pending[i], outcome)])
                      @@ outputs
    /\ tool_runs' = tool_runs + 1
    /\ UNCHANGED <<pc, user_text, messages, next, step, llm_input, model_calls,
                   error, bot_reply, sent, escaped,
                   chat, hung>>

\* a variant of the join that waits for every call to have succeeded
ToolsJoinOnSuccess ==
    /\ pc = "graph" /\ next = "tools" /\ ~OutOfSteps(step)
    /\ DOMAIN outputs = 1..Len(Last(messages).tool_calls)
    /\ \A i \in DOMAIN outputs : outputs[i].outcome # "error"
    /\ messages' = add_messages(messages,
                       ToolOutputs(messages, Last(messages).tool_calls, outputs))
    /\ outputs' = <<>>
    /\ next' = "agent"
    /\ step' = step + 1
    /\ UNCHANGED <<pc, user_text, llm_input, model_calls, tool_runs, error,
                   bot_reply, sent, escaped,
                   chat, hung>>

\* ToolNode: every call has completed; the results are written and the edge
\* tools -> agent taken
ToolsJoin ==
    /\ InGraph("tools")
    /\ DOMAIN outputs = 1..Len(Pending)
    /\ messages' = add_messages(messages, ToolOutputs(messages, Pending, outputs))
    /\ outputs' = <<>>
    /\ next' = "agent"
    /\ step' = step + 1
    /\ UNCHANGED <<pc, user_text, llm_input, model_calls, tool_runs, error,
                   bot_reply, sent, escaped,
                   chat, hung>>

\* the step limit is reached: GraphRecursionError reaches the except clause
RecursionError ==
    /\ pc = "graph"
    /\ OutOfSteps(step)
    /\ error' = "GraphRecursionError"
    /\ bot_reply' = ExceptReply(error')
    /\ pc' = "send"
    /\ UNCHANGED <<user_text, messages, next, step, outputs, llm_input,
                   model_calls, tool_runs, sent, escaped,
                   chat, hung>>

\* lines 213-227: the graph has ended; the reply is taken from the last message
GraphDone ==
    /\ InGraph("END")
    /\ bot_reply' = ExtractReply(Last(messages).content)
    /\ pc' = "send"
    /\ UNCHANGED <<user_text, messages, next, step, outputs, llm_input,
                   model_calls, tool_runs, error, sent, escaped,
                   chat, hung>>

\* line 233: Telegram refuses an empty text, and send_message raises BadRequest
SendReply ==
    /\ pc = "send"
    /\ IF bot_reply = ""
       THEN escaped' = TRUE /\ sent' = sent
       ELSE escaped' = escaped /\ sent' = Append(sent, bot_reply)
    /\ pc' = "returned"
    /\ UNCHANGED <<user_text, messages, next, step, outputs, llm_input,
                   model_calls, tool_runs, error, bot_reply,
                   chat, hung>>

Next ==
    \/ \E t \in TextsOf(chat) : RejectInput(t)
    \/ \E t \in TextsOf(chat) : StartTurn(t)
    \/ \E c \in FinalContents : AgentFinal(c)
    \/ \E c \in CallContents(NumRequested(messages)) :
           \E names \in Batches(NumRequested(messages)) : AgentCalls(c, names)
    \/ AgentError
    \/ \E i \in 1..MaxCalls : \E o \in Outcomes : ToolFinish(i, o)
    \/ ToolsJoin
    \/ RecursionError
    \/ GraphDone
    \/ SendReply

Spec == Init /\ [][Next]_vars

\* the model, the tools and the event loop all make progress
FairSpec == Spec /\ WF_vars(Next)

\* lines 257-283: the application hands the next update to handle_message once
\* the handler has returned; the new invocation has its own locals and its own
\* chat, while the log of the previous graph run is what the process still
\* holds of it
NextUpdate ==
    /\ pc = "returned"
    /\ \E i \in 1..(Len(Chats) - 1) : chat = Chats[i] /\ chat' = Chats[i + 1]
    /\ pc' = "idle"
    /\ user_text' = Unbound
    /\ next' = "none"
    /\ step' = 0
    /\ outputs' = <<>>
    /\ llm_input' = <<>>
    /\ model_calls' = 0
    /\ tool_runs' = 0
    /\ error' = "none"
    /\ bot_reply' = Unbound
    /\ sent' = <<>>
    /\ escaped' = FALSE
    /\ UNCHANGED <<messages, hung>>

TurnsNext == Next \/ NextUpdate

\* one update after the other, each from its own chat
TurnsSpec == Init /\ [][TurnsNext]_vars

\* ToolNode: the backend of a tool call never answers; neither the tools
\* (lines 84-129) nor the graph (lines 155-163) set a timeout
ToolHangs(i) ==
    /\ InGraph("tools")
    /\ i \in 1..Len(Pending)
    /\ i \notin DOMAIN outputs
    /\ i \notin hung
    /\ CallOutcomes(Pending[i]) = Outcomes
    /\ hung' = hung \cup {i}
    /\ UNCHANGED <<pc, user_text, messages, next, step, outputs, llm_input,
                   model_calls, tool_runs, error, bot_reply, sent, escaped, chat>>

HangNext == Next \/ \E i \in 1..MaxCalls : ToolHangs(i)

\* the turn when a backend may fail to answer
HangSpec == Init /\ [][HangNext]_vars


---------------------------------------------------------------------------
(* Vocabulary of the properties                                            *)

Terminal == pc \in {"send", "returned"}
ValidTurn == Terminal /\ user_text # Unbound /\ Strip(user_text) # ""

Assistants(log) == {i \in 1..Len(log) : log[i].role = "assistant"}
ToolResults(log) == {i \in 1..Len(log) : log[i].role = "tool_result"}

\* every model response of the log asks for tools
AlwaysRequests(log) ==
    \A i \in Assistants(log) : Len(log[i].tool_calls) > 0

\* the texts with which the tools describe a failure
FailureTexts ==
    { "Error reading memory: timeout", "No specific personal memory found.",
      "Error connecting to GitHub: timeout", "No recent public repositories found.",
      "HTTPError('timeout')", "[]" }

---------------------------------------------------------------------------
(* C1: for a non-blank user text the reply handed to the transport is a    *)
(* non-empty string and no exception leaves the handler, whatever the      *)
(* model and the tools do.                                                 *)
C1_ReplyNonEmpty ==
    ValidTurn => bot_reply # "" /\ bot_reply # Unbound /\ ~escaped

(* C2: the number of model invocations of a turn never exceeds             *)
(* recursion_limit.                                                        *)
C2_ModelCallsBounded == model_calls <= recursion_limit

\* the step limit has ended a turn
C2_LimitReached ==
    pc = "returned" /\ error = "GraphRecursionError" /\ model_calls > 0

(* C3 as stated: a turn whose model always asks for tools ends after       *)
(* exactly recursion_limit model invocations with the fixed text.          *)
C3_ExactlyLimitCalls ==
    (Terminal /\ error = "GraphRecursionError" /\ AlwaysRequests(messages))
        => model_calls = recursion_limit /\ bot_reply = InternalErrorText

(* C3 as amended: recursion_limit counts super-steps, agent and tools node *)
(* alike, so a turn whose model always asks for tools ends after exactly   *)
(* (recursion_limit + 1) \div 2 model invocations and recursion_limit \div *)
(* 2 tool batches with GraphRecursionError and the fixed apology, and only *)
(* such a turn ends that way.                                              *)
C3_StepLimitCalls ==
    /\ (Terminal /\ model_calls > 0 /\ error # "ModelInvocationError"
            /\ AlwaysRequests(messages))
         => /\ error = "GraphRecursionError"
            /\ model_calls = (recursion_limit + 1) \div 2
            /\ tool_runs >= recursion_limit \div 2
            /\ Cardinality(Assistants(messages)) = model_calls
            /\ bot_reply = InternalErrorText
    /\ error = "GraphRecursionError"
         => /\ AlwaysRequests(messages)
            /\ model_calls = (recursion_limit + 1) \div 2
    /\ model_calls <= (recursion_limit + 1) \div 2

\* a turn of tool requests only has ended
C3_AlwaysToolsTurn ==
    /\ pc = "returned" /\ model_calls > 0 /\ error # "ModelInvocationError"
    /\ AlwaysRequests(messages)
    /\ sent = <<InternalErrorText>>


(* C4: every turn reaches its end, also when every tool of the turn fails: *)
(* the turn never blocks before handle_message has returned (some step is  *)
(* enabled), and the loop agent <-> tools cannot run forever (every step   *)
(* lowers a natural number), so under fairness of the model, tool and      *)
(* transport steps the handler returns.                                    *)
\* what is left of the turn: the position in handle_message, then the
\* super-steps left under the limit, then the calls of the batch still running
Running ==
    IF pc = "graph" /\ next = "tools"
    THEN Len(Pending) - Cardinality(DOMAIN outputs) ELSE 0
Measure ==
    LET W == (recursion_limit + 2) * (MaxCalls + 1)
    IN CASE pc = "idle" -> 3 * W
         [] pc = "graph" ->
              2 * W + (recursion_limit + 1 - step) * (MaxCalls + 1) + Running
         [] pc = "send" -> W
         [] OTHER -> 0
C4_Step ==
    /\ pc = "graph" => step <= recursion_limit + 1 /\ Running >= 0
    /\ Measure' < Measure
\* steps of Next that need no choice of the model: one of them is enough
\* for the turn not to be blocked
C4_SomeStep ==
    \/ RejectInput("")
    \/ AgentError
    \/ \E i \in 1..MaxCalls : ToolFinish(i, "ok")
    \/ ToolsJoin
    \/ RecursionError
    \/ GraphDone
    \/ SendReply
C4_EventuallyReturned == <>(pc = "returned")

C5_Step ==
    InGraph("tools") =>
        /\ pc' = "graph" /\ error' = "none" /\ bot_reply' = bot_reply
        /\ messages' # messages =>
            /\ next' = "agent"
            /\ Len(messages') = Len(messages) + Len(Pending)
            /\ SubSeq(messages', 1, Len(messages)) = messages
            /\ \A i \in 1..Len(Pending) :
                  LET m == messages'[Len(messages) + i]
                  IN /\ m.role = "tool_result"
                     /\ m.tool_call_id = Pending[i].id
                     /\ m.content.text # ""
                     /\ m.content.text = RunOne(Pending[i], outputs[i].outcome)
C5_ToolFailuresAreText == [][C5_Step]_vars

\* a batch of two calls, one failed and one succeeded, has been written
C5_MixedBatch ==
    /\ pc = "graph" /\ next = "agent"
    /\ Last(messages).role = "tool_result"
    /\ Len(messages) >= 5
    /\ messages[Len(messages) - 1].role = "tool_result"
    /\ messages[Len(messages) - 1].content.text = "Error reading memory: timeout"
    /\ Last(messages).content.text = "[{'url': 'https://example.org', 'content': 'sunny'}]"

(* C6: at every model invocation, each assistant message of the input that *)
(* carries N tool-call requests is followed by exactly N tool_result       *)
(* messages, and every request id is the tool_call_id of exactly one of    *)
(* them, whatever the order in which the calls completed.                  *)
C6_ResultsMatch ==
    \A a \in Assistants(llm_input) :
        LET calls == llm_input[a].tool_calls
            N == Len(calls)
        IN N > 0 =>
            /\ a + N <= Len(llm_input)
            /\ \A j \in 1..N : llm_input[a + j].role = "tool_result"
            /\ a + N < Len(llm_input) => llm_input[a + N + 1].role = "assistant"
            /\ \A c \in 1..N :
                 Cardinality({j \in 1..N :
                     llm_input[a + j].tool_call_id = calls[c].id}) = 1

\* the model has been invoked on a log that holds an answered batch of two
C6_AnsweredBatch ==
    \E a \in Assistants(llm_input) :
        /\ Len(llm_input[a].tool_calls) = 2
        /\ llm_input[a].tool_calls[1].id # llm_input[a].tool_calls[2].id
        /\ Last(llm_input).role = "tool_result"

(* C7: once a model invocation has failed the turn is over: no further     *)
(* model invocation, tool run or log entry, and the reply is the fixed     *)
(* apology, which is none of the texts of the log.                         *)
C7_State ==
    error = "ModelInvocationError" =>
        /\ Terminal
        /\ bot_reply = InternalErrorText
        /\ \A i \in 1..Len(messages) : messages[i].content.text # bot_reply
        /\ pc = "returned" => sent = <<InternalErrorText>>
C7_Step ==
    /\ error = "ModelInvocationError" =>
          /\ model_calls' = model_calls /\ tool_runs' = tool_runs
          /\ messages' = messages /\ bot_reply' = bot_reply
    /\ error' = "ModelInvocationError" /\ error = "none" =>
          messages' = messages /\ pc' = "send"
C7_ModelFailureIsFatal == []C7_State /\ [][C7_Step]_vars

\* the second model invocation of a turn has failed, after a tool result
C7_LateFailure ==
    /\ pc = "returned" /\ error = "ModelInvocationError"
    /\ model_calls = 2 /\ ToolResults(messages) # {}

(* C8: when the first model response carries no tool call and a non-empty  *)
(* plain text t, the turn returns exactly t after one model invocation and *)
(* no tool run.                                                            *)
C8_ImmediateFinal ==
    (/\ Len(messages) >= 3
     /\ messages[3].role = "assistant"
     /\ Len(messages[3].tool_calls) = 0
     /\ messages[3].content.kind = "str"
     /\ messages[3].content.text # "")
        => /\ model_calls = 1 /\ tool_runs = 0 /\ Len(messages) = 3
           /\ pc = "graph" => next = "END"
           /\ Terminal => bot_reply = messages[3].content.text /\ error = "none"
           /\ pc = "returned" => sent = <<messages[3].content.text>>

\* "hi there" has been sent in answer to "hello"
C8_HiThere ==
    pc = "returned" /\ user_text = "hello" /\ sent = <<"hi there">> /\ model_calls = 1

(* C9: when the model asks for one tool call and then answers, the turn    *)
(* makes two model invocations and one tool run, the log is [system, user, *)
(* request, tool_result, answer] and the second invocation's input ends    *)
(* with the tool_result.                                                   *)
C9_OneToolThenFinal ==
    (/\ Len(messages) >= 3
     /\ Len(messages[3].tool_calls) = 1
     /\ Cardinality(Assistants(messages)) = 2
     /\ Last(messages).role = "assistant"
     /\ Len(Last(messages).tool_calls) = 0)
        => /\ model_calls = 2 /\ tool_runs = 1
           /\ Len(messages) = 5
           /\ messages[3].role = "assistant"
           /\ messages[4].role = "tool_result"
           /\ messages[4].tool_call_id = messages[3].tool_calls[1].id
           /\ llm_input = SubSeq(messages, 1, 4)

\* the memory tool was asked once, answered, and the model then replied
C9_MemoryThenAnswer ==
    /\ pc = "returned" /\ Len(messages) = 5 /\ model_calls = 2
    /\ messages[3].tool_calls = <<ToolCall(1, "check_my_memory")>>
    /\ messages[4].content.text = "Pooya's resume: developer"
    /\ sent = <<"hi there">>

(* C10: a request for a tool that is not registered is answered by a       *)
(* tool_result with the request's id that says the tool is not valid; when *)
(* the later model invocations succeed within the step limit, the model is *)
(* invoked again and the turn ends with a non-empty text.                  *)
UnknownRequested(log) ==
    \E a \in Assistants(log) : \E c \in 1..Len(log[a].tool_calls) :
        log[a].tool_calls[c].name \notin ToolNames
C10_UnknownToolRecovers ==
    /\ \A a \in Assistants(messages) : \A c \in 1..Len(messages[a].tool_calls) :
          (messages[a].tool_calls[c].name \notin ToolNames /\ a < Len(messages))
             => /\ messages[a + c].role = "tool_result"
                /\ messages[a + c].tool_call_id = messages[a].tool_calls[c].id
                /\ messages[a + c].content.text
                      = InvalidToolText(messages[a].tool_calls[c].name)
    /\ (Terminal /\ error = "none" /\ UnknownRequested(messages))
          => model_calls >= 2 /\ bot_reply # "" /\ ~escaped

---------------------------------------------------------------------------
(* C11: an empty or whitespace-only user text never reaches the graph: no  *)
(* log is created, the model is never invoked and no tool is run; the      *)
(* handler sends the invalid-input notice, and nothing else, and returns.  *)
BlankTexts == {"", "   "}

C11_BlankNeverReachesGraph ==
    user_text \in BlankTexts =>
        /\ pc = "returned"
        /\ messages = <<>> /\ llm_input = <<>> /\ outputs = <<>>
        /\ next = "none" /\ step = 0
        /\ model_calls = 0 /\ tool_runs = 0
        /\ error = "none" /\ bot_reply = Unbound
        /\ sent = <<InvalidInputText>> /\ ~escaped

\* a whitespace-only text has been answered with the notice
C11_BlankRejected ==
    pc = "returned" /\ user_text = "   " /\ sent = <<InvalidInputText>>

---------------------------------------------------------------------------
\* the tool-call requests of the last assistant message of the log
LastRequests(log) ==
    LET a == Assistants(log)
    IN IF a = {} THEN <<>>
       ELSE log[CHOOSE i \in a : \A j \in a : j <= i].tool_calls

\* the ids of the requests the log holds a result for
AnsweredIds(log) == {log[i].tool_call_id : i \in ToolResults(log)}

(* C12 as stated: when the step limit is hit the last message of the log   *)
(* is the assistant message whose requests were not run: no tool runs      *)
(* after the last model invocation of the turn.                            *)
C12_LimitSkipsLastBatch ==
    error = "GraphRecursionError" =>
        /\ Last(messages).role = "assistant"
        /\ Len(Last(messages).tool_calls) > 0
        /\ \A j \in 1..Len(LastRequests(messages)) :
               LastRequests(messages)[j].id \notin AnsweredIds(messages)
        /\ tool_runs = NumRequested(messages) - Len(LastRequests(messages))

(* C12 as amended: the step limit is hit after a tools step, at super-step *)
(* recursion_limit + 1: every request of the last assistant message has    *)
(* been run and its result appended, no model invocation sees the results, *)
(* and the turn ends through the except clause with the fixed apology.     *)
C12_LimitAfterTools ==
    error = "GraphRecursionError" =>
        /\ step = recursion_limit + 1
        /\ next = "agent"
        /\ Last(messages).role = "tool_result"
        /\ Len(LastRequests(messages)) > 0
        /\ \A j \in 1..Len(LastRequests(messages)) :
               LastRequests(messages)[j].id \in AnsweredIds(messages)
        /\ tool_runs = NumRequested(messages)
        /\ Len(llm_input) < Len(messages) - Len(LastRequests(messages))
        /\ bot_reply = InternalErrorText
        /\ pc = "returned" => sent = <<InternalErrorText>>

\* the step limit has ended a turn whose last batch was run
C12_LimitHitAfterBatch ==
    /\ pc = "returned" /\ error = "GraphRecursionError"
    /\ Last(messages).role = "tool_result"
    /\ tool_runs = NumRequested(messages)

---------------------------------------------------------------------------
(* C13: the log is append-only within a turn: it starts as the system      *)
(* message followed by the user message, every later step (model node,     *)
(* tools node, through add_messages) leaves the previous log as a prefix   *)
(* of the new one, and every model invocation receives the whole log.      *)
IsPrefix(a, b) == Len(a) <= Len(b) /\ SubSeq(b, 1, Len(a)) = a

C13_Step ==
    /\ (messages = <<>> /\ messages' # <<>>) =>
           /\ Len(messages') = 2
           /\ messages'[1].role = "system"
           /\ messages'[1].content = StrContent(system_message)
           /\ messages'[2].role = "user"
           /\ messages'[2].content = StrContent(user_text')
    /\ messages # <<>> => IsPrefix(messages, messages')
    /\ messages' # messages => Len(messages') > Len(messages)
    /\ model_calls' # model_calls => llm_input' = messages

C13_AppendOnly == [][C13_Step]_vars

\* the second model invocation of a turn received the log with the first
\* response and the results of its two requests
C13_SecondInvocation ==
    /\ model_calls = 2 /\ Len(llm_input) = 5
    /\ llm_input[1].role = "system" /\ llm_input[2].role = "user"
    /\ llm_input[3].role = "assistant"
    /\ llm_input[4].role = "tool_result" /\ llm_input[5].role = "tool_result"
    /\ IsPrefix(llm_input, messages)

---------------------------------------------------------------------------
\* the graph has returned normally and the reply was taken from the log
Extracted == Terminal /\ error = "none" /\ bot_reply # Unbound

\* the positions of the segments of a content that are dicts with a text
TextualSegs(content) ==
    {i \in 1..Len(content.segs) :
        content.segs[i].kind = "dict" /\ content.segs[i].hasText}

(* C14 as stated: for a content that is a sequence the reply is the text   *)
(* of its first textual segment, wherever it sits; for a sequence without  *)
(* a textual segment the reply is the non-empty fallback text.             *)
C14_FirstTextualSegment ==
    LET c == Last(messages).content
        t == TextualSegs(c)
    IN (Extracted /\ c.kind = "list") =>
          /\ t # {} => bot_reply = c.segs[CHOOSE i \in t : \A j \in t : i <= j].text
          /\ t = {} => bot_reply = FallbackText
          /\ FallbackText # ""

(* C14 as amended: only the first element of the sequence is looked at: if *)
(* it is a dict with a text the reply is that text; if it is anything else *)
(* the reply is str() of the whole sequence; for the empty sequence the    *)
(* reply is the fallback text, which is not empty.                         *)
C14_FirstElementOnly ==
    LET c == Last(messages).content
    IN (Extracted /\ c.kind = "list") =>
          /\ (Len(c.segs) > 0 /\ 1 \in TextualSegs(c)) => bot_reply = c.segs[1].text
          /\ (Len(c.segs) > 0 /\ 1 \notin TextualSegs(c)) =>
                 /\ bot_reply = PyStr(c)
                 /\ bot_reply \notin {"", FallbackText}
          /\ Len(c.segs) = 0 => bot_reply = FallbackText
          /\ FallbackText # ""

\* a sequence whose textual segment is the second one was answered with the
\* text of the whole sequence
C14_TextSecond ==
    /\ pc = "returned" /\ error = "none" /\ bot_reply # Unbound
    /\ Last(messages).content = ListContent(<<OtherSeg, TextSeg("seg")>>)
    /\ sent = <<"[{'type': 'image_url'}, {'type': 'text', 'text': 'seg'}]">>

---------------------------------------------------------------------------
(* C15: turns are isolated. The log of a turn is created as the system     *)
(* message and the user message of that turn's own text, whatever the      *)
(* turns before it left behind, and from then on the log, the input of     *)
(* every model invocation and the reply hold nothing but this turn's       *)
(* messages: its one user text, the responses the model gave in this turn  *)
(* and the results of the tools run in this turn.                          *)
InTurn == pc \in {"graph", "send"} \/ (pc = "returned" /\ bot_reply # Unbound)

C15_State ==
    InTurn =>
        /\ user_text \in TextsOf(chat)
        /\ Len(messages) >= 2
        /\ messages[1].role = "system" /\ messages[2].role = "user"
        /\ messages[2].content = StrContent(user_text)
        /\ \A i \in 3..Len(messages) : messages[i].role \in {"assistant", "tool_result"}
        /\ Cardinality(Assistants(messages)) =
               model_calls - (IF error = "ModelInvocationError" THEN 1 ELSE 0)
        /\ Cardinality(ToolResults(messages)) = tool_runs - Cardinality(DOMAIN outputs)
        /\ \A i \in ToolResults(messages) :
               \E a \in Assistants(messages) :
                   \E j \in 1..Len(messages[a].tool_calls) :
                       a < i /\ messages[a].tool_calls[j].id = messages[i].tool_call_id
        /\ IsPrefix(llm_input, messages)
        /\ bot_reply \in {Unbound, InternalErrorText, ExtractReply(Last(messages).content)}

C15_Step ==
    (pc = "idle" /\ pc' = "graph") =>
        /\ Len(messages') = 2
        /\ messages'[1].content = StrContent(system_message)
        /\ messages'[2].content = StrContent(user_text')
        /\ llm_input' = <<>> /\ model_calls' = 0 /\ tool_runs' = 0
        /\ bot_reply' = Unbound /\ sent' = <<>>

---------------------------------------------------------------------------
(* C16 as stated: a tool call that never returns does not block the turn:  *)
(* while such a call is outstanding the turn can still take a step (the    *)
(* timeout gives the call a failure text and the batch is joined).         *)
C16_SomeStep ==
    \/ C4_SomeStep
    \/ \E i \in 1..MaxCalls : ToolHangs(i)

C16_HungCallDoesNotBlock ==
    (pc = "graph" /\ hung # {}) => ENABLED C16_SomeStep

---------------------------------------------------------------------------
(* C17: routing looks at the shape of the model's response only: after a   *)
(* model invocation that returned a message, the tools node runs next if   *)
(* and only if that message carries tool-call requests, and otherwise the  *)
(* graph ends; the text of the message plays no part.                      *)
C17_Step ==
    (model_calls' # model_calls /\ error' = "none") =>
        LET m == Last(messages')
        IN /\ m.role = "assistant" /\ Len(messages') = Len(messages) + 1
           /\ Len(m.tool_calls) > 0 => (ENABLED ToolFinish(1, "ok"))'
           /\ Len(m.tool_calls) > 0 <=> next' = "tools"
           /\ Len(m.tool_calls) = 0 <=> next' = "END"
           /\ pc' = "graph" /\ ~OutOfSteps(step')

C17_RoutingByShape == [][C17_Step]_vars

\* a response with text and a request was routed to the tools node
C17_TextAndRequest ==
    /\ pc = "graph" /\ next = "tools" /\ outputs = <<>>
    /\ Last(messages).role = "assistant"
    /\ Last(messages).content = StrContent("Let me check.")
    /\ Len(Last(messages).tool_calls) > 0

---------------------------------------------------------------------------
(* C18: an invocation of handle_message that has ended has sent exactly    *)
(* one message to the chat, on every path (invalid input, answer,          *)
(* fallback, apology), and before its end it has sent none.                *)
C18_ExactlyOneReply ==
    /\ pc = "returned" => Len(sent) = 1
    /\ pc # "returned" => Len(sent) = 0

---------------------------------------------------------------------------
(* C19: when the graph run has returned normally the last message of the   *)
(* log is an assistant message without tool-call requests, and it is the   *)
(* message the reply is taken from.                                        *)
C19_LastIsFinalAssistant ==
    ((pc = "graph" /\ next = "END") \/ Extracted) =>
        /\ Last(messages).role = "assistant"
        /\ Len(Last(messages).tool_calls) = 0
        /\ Extracted => bot_reply = ExtractReply(Last(messages).content)

\* a turn with a batch of two tool calls has returned the text of the
\* assistant message that followed the results
C19_AnswerAfterBatch ==
    /\ pc = "returned" /\ error = "none" /\ tool_runs = 2
    /\ Len(messages) = 6
    /\ messages[5].role = "tool_result"
    /\ Last(messages).content = ListContent(<<TextSeg("seg")>>)
    /\ sent = <<"seg">>

=============================================================================
